---- MODULE Spec2Model ----
(***************************************************************************)
(* Model of tools/codegen/gen_backend_stubs.py: parse_backend_yaml (the    *)
(* merge of a backend declaration with the grouped operator registry) and  *)
(* main (the three fm.write calls that emit the generated artifacts).      *)
(*                                                                         *)
(* Text is a sequence of one-character strings, so that iterating a string *)
(* (Python's `for op in "ab"`) and parsing/formatting an operator name are *)
(* real computations.  YAML values are tagged records of one shape.        *)
(***************************************************************************)
EXTENDS Naturals, Sequences, FiniteSets, TLC

VARIABLES
    grouped_native_functions,   \* the registry sequence handed to parse_backend_yaml
    yaml_values,                \* the loaded backend declaration
    pc,                         \* position of main
    cpp_namespace,              \* first component of parse_backend_yaml's result
    metadata,                   \* the metadata dict (insertion ordered)
    external_backend_functions, \* second component of parse_backend_yaml's result
    err,                        \* the exception that ended the run, if any
    files,                      \* content of the output directory
    written,                    \* artifacts written by the current run
    reg_entries,                \* the two filtered entry lists of the last write
    run,                        \* "first" or "second" run on the same inputs
    prev,                       \* the output directory as the first run left it
    reordered                   \* whether the second run got the lists in reverse order

vars == <<grouped_native_functions, yaml_values, pc, cpp_namespace, metadata,
          external_backend_functions, err, files, written, reg_entries,
          run, prev, reordered>>

----------------------------------------------------------------------------
(* Bounds *)

MaxReg == 2

MaxNames == 3

----------------------------------------------------------------------------
(* YAML values *)

YStr(s) == [tag |-> "str", s |-> s, items |-> <<>>]

YInt == [tag |-> "int", s |-> <<>>, items |-> <<>>]

YAbsent == [tag |-> "absent", s |-> <<>>, items |-> <<>>]

YList(items) == [tag |-> "list", s |-> <<>>, items |-> items]

----------------------------------------------------------------------------
(* Operator names *)

OpName(n, o) == [name |-> n, overload_name |-> o]

NoName == OpName(<<>>, <<>>)

RECURSIVE IndexOfDot(_, _)
IndexOfDot(s, i) ==
    IF i > Len(s) THEN 0
    ELSE IF s[i] = "." THEN i
    ELSE IndexOfDot(s, i + 1)

OperatorName_parse(s) ==
    LET d == IndexOfDot(s, 1) IN
    IF d = 0 THEN OpName(s, <<>>)
    ELSE OpName(SubSeq(s, 1, d - 1), SubSeq(s, d + 1, Len(s)))

OperatorName_str(n) ==
    IF n.overload_name = <<>> THEN n.name
    ELSE n.name \o <<".">> \o n.overload_name

ParseOk(v) ==
    /\ v.tag = "str"
    /\ OperatorName_parse(v.s).name # <<>>
    /\ OperatorName_str(OperatorName_parse(v.s)) = v.s

----------------------------------------------------------------------------
(* Registry entries *)

NativeFunction(n) == [present |-> TRUE, name |-> n]

NoFunction == [present |-> FALSE, name |-> NoName]

Standalone(f) ==
    [kind |-> "function", f |-> f,
     functional |-> NoFunction, inplace |-> NoFunction, out |-> NoFunction]

NativeFunctionsGroup(fn, ip, o) ==
    [kind |-> "group", f |-> NoFunction,
     functional |-> fn, inplace |-> ip, out |-> o]

Present(s) == SelectSeq(s, LAMBDA x : x.present)

functions(g) == Present(<<g.functional, g.inplace, g.out>>)

\* concatMap(func, xs), given the sequence of the values func(x), x in xs
RECURSIVE concatMap(_)
concatMap(mapped) ==
    IF mapped = <<>> THEN <<>>
    ELSE Head(mapped) \o concatMap(Tail(mapped))

Flatten(g) == IF g.kind = "function" THEN <<g.f>> ELSE functions(g)

native_functions_map(grouped) ==
    concatMap([i \in 1..Len(grouped) |-> Flatten(grouped[i])])

InMap(n, fmap) == \E i \in 1..Len(fmap) : fmap[i].name = n

----------------------------------------------------------------------------
(* The metadata dict: a Python dict keeps insertion order, and assigning   *)
(* to an existing key replaces the value in place.                         *)

ExternalBackendMetadata(op, backend, is_autograd) ==
    [present |-> TRUE, operator |-> op, backend |-> backend,
     is_autograd |-> is_autograd]

NoMetadata ==
    [present |-> FALSE, operator |-> NoName, backend |-> YAbsent,
     is_autograd |-> FALSE]

HasKey(d, n) == \E i \in 1..Len(d) : d[i].operator = n

\* Variant: an existing key keeps its first value (dict.setdefault).
DictSet_keep_first(d, m) ==
    IF HasKey(d, m.operator) THEN d ELSE Append(d, m)

DictSet(d, m) ==
    IF HasKey(d, m.operator)
    THEN [i \in 1..Len(d) |-> IF d[i].operator = m.operator THEN m ELSE d[i]]
    ELSE Append(d, m)

DictGet(d, n) ==
    IF HasKey(d, n)
    THEN d[CHOOSE i \in 1..Len(d) : d[i].operator = n]
    ELSE NoMetadata

----------------------------------------------------------------------------
(* Exceptions *)

NoErr == [kind |-> "none", arg |-> <<>>]

Raise(kind, arg) == [kind |-> kind, arg |-> arg]

----------------------------------------------------------------------------
(* Iteration of a YAML value by a Python for loop: a list yields its       *)
(* items, a string yields its characters as one-character strings, any     *)
(* other scalar is not iterable.                                           *)

Iterable(v) == v.tag \in {"list", "str"}

Iter(v) ==
    IF v.tag = "list" THEN v.items
    ELSE [i \in 1..Len(v.s) |-> YStr(<<v.s[i]>>)]

RECURSIVE AddAll(_, _, _, _)
AddAll(d, ops, backend, is_autograd) ==
    IF ops = <<>> THEN [err |-> NoErr, metadata |-> d]
    ELSE IF ~ParseOk(Head(ops))
    THEN [err |-> Raise("ParseError", Head(ops).s), metadata |-> d]
    ELSE AddAll(DictSet(d, ExternalBackendMetadata(
                               OperatorName_parse(Head(ops).s), backend, is_autograd)),
                Tail(ops), backend, is_autograd)

BuildMetadata(backend, supported, supported_autograd) ==
    IF ~Iterable(supported)
    THEN [err |-> Raise("TypeError", <<"supported">>), metadata |-> <<>>]
    ELSE LET r1 == AddAll(<<>>, Iter(supported), backend, FALSE) IN
         IF r1.err # NoErr THEN r1
         ELSE IF ~Iterable(supported_autograd)
         THEN [err |-> Raise("TypeError", <<"autograd">>), metadata |-> r1.metadata]
         ELSE AddAll(r1.metadata, Iter(supported_autograd), backend, TRUE)

----------------------------------------------------------------------------
(* Resolved entries *)

ExternalBackendFunction(f, m) ==
    [present |-> TRUE, native_function |-> f, metadata |-> m]

NoExternal ==
    [present |-> FALSE, native_function |-> NoFunction, metadata |-> NoMetadata]

Resolve(f, md) ==
    IF f.present THEN ExternalBackendFunction(f, DictGet(md, f.name))
    ELSE NoExternal

from_function_group(g, md) ==
    [kind |-> "group", f |-> NoExternal,
     functional |-> Resolve(g.functional, md),
     inplace |-> Resolve(g.inplace, md),
     out |-> Resolve(g.out, md)]

\* Variant: a standalone function is never looked up in the metadata.
native_to_external_no_lookup(g, md) ==
    IF g.kind = "function"
    THEN [kind |-> "function",
          f |-> ExternalBackendFunction(g.f, NoMetadata),
          functional |-> NoExternal, inplace |-> NoExternal, out |-> NoExternal]
    ELSE from_function_group(g, md)

native_to_external(g, md) ==
    IF g.kind = "function"
    THEN [kind |-> "function",
          f |-> ExternalBackendFunction(g.f, DictGet(md, g.f.name)),
          functional |-> NoExternal, inplace |-> NoExternal, out |-> NoExternal]
    ELSE from_function_group(g, md)

\* Variant: only the entries the backend declared are resolved.
ResolveAll_declared_only(grouped, md) ==
    LET declared == SelectSeq(grouped, LAMBDA g :
                        \E i \in 1..Len(Flatten(g)) : HasKey(md, Flatten(g)[i].name))
    IN  [i \in 1..Len(declared) |-> native_to_external(declared[i], md)]

\* Variant: the entry of the first declared operator is emitted first.
ResolveAll_metadata_order(grouped, md) ==
    LET first == SelectSeq(grouped, LAMBDA g :
                     /\ md # <<>>
                     /\ \E i \in 1..Len(Flatten(g)) : Flatten(g)[i].name = md[1].operator)
        rest == SelectSeq(grouped, LAMBDA g :
                     ~(/\ md # <<>>
                       /\ \E i \in 1..Len(Flatten(g)) : Flatten(g)[i].name = md[1].operator))
    IN  [i \in 1..Len(first) |-> native_to_external(first[i], md)]
        \o [i \in 1..Len(rest) |-> native_to_external(rest[i], md)]

ResolveAll(grouped, md) ==
    [i \in 1..Len(grouped) |-> native_to_external(grouped[i], md)]

\* Variant: only the keys of the supported list are validated.
InvalidKeys_supported_only(md, fmap) ==
    SelectSeq(md, LAMBDA m : ~m.is_autograd /\ ~InMap(m.operator, fmap))

InvalidKeys(md, fmap) == SelectSeq(md, LAMBDA m : ~InMap(m.operator, fmap))

Failure(e, md) ==
    [err |-> e, cpp_namespace |-> YAbsent, metadata |-> md, externals |-> <<>>]

RequiredKeys == <<"cpp_namespace", "backend", "supported", "autograd">>

MissingKeys(y) == SelectSeq(RequiredKeys, LAMBDA k : y[k].tag = "absent")

parse_backend_yaml(y, grouped) ==
    IF ~y.dict THEN Failure(Raise("AssertionError", <<>>), <<>>)
    ELSE IF MissingKeys(y) # <<>>
    THEN Failure(Raise("KeyError", <<Head(MissingKeys(y))>>), <<>>)
    ELSE LET b == BuildMetadata(y.backend, y.supported, y.autograd)
             bad == InvalidKeys(b.metadata, native_functions_map(grouped))
         IN  IF b.err # NoErr THEN Failure(b.err, b.metadata)
             ELSE IF bad # <<>>
             THEN Failure(Raise("InvalidOperatorName",
                                OperatorName_str(Head(bad).operator)), b.metadata)
             ELSE [err |-> NoErr, cpp_namespace |-> y.cpp_namespace,
                   metadata |-> b.metadata,
                   externals |-> ResolveAll(grouped, b.metadata)]

----------------------------------------------------------------------------
(* Fragment generators of tools.codegen.dest: one fragment per function of *)
(* an entry, a group yielding one per present variant; the registration    *)
(* target only for a function that carries metadata.                       *)

Fragment(target, e) == [target |-> target, operator |-> e.native_function.name]

ExternalFunctions(e) ==
    IF e.kind = "function" THEN <<e.f>>
    ELSE Present(<<e.functional, e.inplace, e.out>>)

compute_native_function_declaration(e) ==
    [i \in 1..Len(ExternalFunctions(e)) |->
        Fragment("DECLARATION", ExternalFunctions(e)[i])]

GenExternalAtenFallback(target, e) ==
    LET fs == IF target = "REGISTRATION"
              THEN SelectSeq(ExternalFunctions(e), LAMBDA f : f.metadata.present)
              ELSE ExternalFunctions(e)
    IN  [i \in 1..Len(fs) |-> Fragment(target, fs[i])]

function_is_autograd_kernel(f) == f.metadata.present /\ f.metadata.is_autograd

is_autograd_kernel(e) ==
    \E i \in 1..Len(ExternalFunctions(e)) :
        function_is_autograd_kernel(ExternalFunctions(e)[i])

----------------------------------------------------------------------------
(* The template environments built by main *)

H == "aten_xla_type.h"

DefaultH == "aten_xla_type_default.h"

DefaultCpp == "aten_xla_type_default.cpp"

Artifacts == {H, DefaultH, DefaultCpp}

NoFile == [exists |-> FALSE]

dispatch_xla_declarations(ext) ==
    concatMap([i \in 1..Len(ext) |-> compute_native_function_declaration(ext[i])])

dispatch_aten_fallback_declarations(ext) ==
    concatMap([i \in 1..Len(ext) |->
                  GenExternalAtenFallback("NAMESPACED_DECLARATION", ext[i])])

\* Variant: definitions are generated for the non-autograd entries only.
dispatch_aten_fallback_definitions_filtered(ext) ==
    LET es == SelectSeq(ext, LAMBDA e : ~is_autograd_kernel(e)) IN
    concatMap([i \in 1..Len(es) |->
                  GenExternalAtenFallback("NAMESPACED_DEFINITION", es[i])])

dispatch_aten_fallback_definitions(ext) ==
    concatMap([i \in 1..Len(ext) |->
                  GenExternalAtenFallback("NAMESPACED_DEFINITION", ext[i])])

\* Variant: the plain list keeps only the entries that carry metadata.
plain_entries_with_metadata(ext) ==
    SelectSeq(ext, LAMBDA e :
        /\ ~is_autograd_kernel(e)
        /\ \E i \in 1..Len(ExternalFunctions(e)) :
               ExternalFunctions(e)[i].metadata.present)

plain_entries(ext) == SelectSeq(ext, LAMBDA e : ~is_autograd_kernel(e))

autograd_entries(ext) == SelectSeq(ext, LAMBDA e : is_autograd_kernel(e))

dispatch_registrations(ext) ==
    concatMap([i \in 1..Len(plain_entries(ext)) |->
                  GenExternalAtenFallback("REGISTRATION", plain_entries(ext)[i])])

dispatch_autograd_registrations(ext) ==
    concatMap([i \in 1..Len(autograd_entries(ext)) |->
                  GenExternalAtenFallback("REGISTRATION", autograd_entries(ext)[i])])

env_h(ns, ext) ==
    [exists |-> TRUE, cpp_namespace |-> ns,
     dispatch_xla_declarations |-> dispatch_xla_declarations(ext)]

env_default_h(ns, ext) ==
    [exists |-> TRUE, cpp_namespace |-> ns,
     dispatch_aten_fallback_declarations |-> dispatch_aten_fallback_declarations(ext)]

env_default_cpp(ns, ext) ==
    [exists |-> TRUE, cpp_namespace |-> ns,
     dispatch_aten_fallback_definitions |-> dispatch_aten_fallback_definitions(ext),
     dispatch_registrations |-> dispatch_registrations(ext),
     dispatch_autograd_registrations |-> dispatch_autograd_registrations(ext)]

----------------------------------------------------------------------------
(* Inputs *)

tA == <<"a">>

tB == <<"b">>

tC == <<"c">>

tCo == <<"c", ".", "o">>

tZ == <<"z">>

Fn(t) == NativeFunction(OperatorName_parse(t))

RegistryPool ==
    {Standalone(Fn(tA)), Standalone(Fn(tB)),
     NativeFunctionsGroup(Fn(tC), NoFunction, Fn(tCo))}

SeqsUpTo(S, n) == UNION {[1..k -> S] : k \in 0..n}

Distinct(s) == \A i, j \in 1..Len(s) : i # j => s[i] # s[j]

Registries == {r \in SeqsUpTo(RegistryPool, MaxReg) : Distinct(r)}

NamePool == {YStr(tA), YStr(tC), YStr(tCo), YStr(tZ)}

Declaration(ns, backend, supported, autograd) ==
    [dict |-> TRUE, cpp_namespace |-> ns, backend |-> backend,
     supported |-> supported, autograd |-> autograd]

NotADict ==
    [dict |-> FALSE, cpp_namespace |-> YAbsent, backend |-> YAbsent,
     supported |-> YAbsent, autograd |-> YAbsent]

ListDeclarations ==
    UNION {{Declaration(YStr(<<"n">>), YStr(<<"X">>), YList(s), YList(t)) :
                t \in SeqsUpTo(NamePool, MaxNames - Len(s))} :
           s \in SeqsUpTo(NamePool, MaxNames)}

ScalarShapes == {YAbsent, YInt, YStr(<<"n">>)}

ListShapes ==
    {YAbsent, YInt, YStr(<<"a", "c">>), YList(<<>>), YList(<<YInt>>),
     YList(<<YStr(<<>>)>>), YList(<<YStr(tA)>>)}

ShapeDeclarations ==
    {Declaration(ns, b, s, t) :
        ns \in ScalarShapes, b \in ScalarShapes, s \in ListShapes, t \in ListShapes}

Declarations == ListDeclarations \cup ShapeDeclarations \cup {NotADict}

----------------------------------------------------------------------------
(* main *)

NoEntries == [plain |-> <<>>, autograd |-> <<>>]

Init ==
    /\ grouped_native_functions \in Registries
    /\ yaml_values \in Declarations
    /\ pc = "parse"
    /\ cpp_namespace = YAbsent
    /\ metadata = <<>>
    /\ external_backend_functions = <<>>
    /\ err = NoErr
    /\ files = [a \in Artifacts |-> NoFile]
    /\ written = {}
    /\ reg_entries = NoEntries
    /\ run = "first"
    /\ prev = [a \in Artifacts |-> NoFile]
    /\ reordered = FALSE

ParseBackendYaml ==
    /\ pc = "parse"
    /\ LET r == parse_backend_yaml(yaml_values, grouped_native_functions) IN
        /\ err' = r.err
        /\ cpp_namespace' = r.cpp_namespace
        /\ metadata' = r.metadata
        /\ external_backend_functions' = r.externals
        /\ pc' = IF r.err = NoErr THEN "write_h" ELSE "failed"
    /\ UNCHANGED <<grouped_native_functions, yaml_values, files, written,
                   reg_entries, run, prev, reordered>>

WriteFails(at) ==
    /\ pc = at
    /\ pc' = "failed"
    /\ err' = Raise("WriteError", <<at>>)
    /\ UNCHANGED <<grouped_native_functions, yaml_values, cpp_namespace, metadata,
                   external_backend_functions, files, written, reg_entries,
                   run, prev, reordered>>

WriteHeader ==
    /\ pc = "write_h"
    /\ files' = [files EXCEPT ![H] = env_h(cpp_namespace, external_backend_functions)]
    /\ written' = written \cup {H}
    /\ pc' = "write_default_h"
    /\ UNCHANGED <<grouped_native_functions, yaml_values, cpp_namespace, metadata,
                   external_backend_functions, err, reg_entries, run, prev, reordered>>

WriteDefaultHeader ==
    /\ pc = "write_default_h"
    /\ files' = [files EXCEPT
                    ![DefaultH] = env_default_h(cpp_namespace, external_backend_functions)]
    /\ written' = written \cup {DefaultH}
    /\ pc' = "write_default_cpp"
    /\ UNCHANGED <<grouped_native_functions, yaml_values, cpp_namespace, metadata,
                   external_backend_functions, err, reg_entries, run, prev, reordered>>

WriteDefaultCpp ==
    /\ pc = "write_default_cpp"
    /\ files' = [files EXCEPT
                    ![DefaultCpp] = env_default_cpp(cpp_namespace, external_backend_functions)]
    /\ reg_entries' = [plain |-> plain_entries(external_backend_functions),
                       autograd |-> autograd_entries(external_backend_functions)]
    /\ written' = written \cup {DefaultCpp}
    /\ pc' = "done"
    /\ UNCHANGED <<grouped_native_functions, yaml_values, cpp_namespace, metadata,
                   external_backend_functions, err, run, prev, reordered>>

RECURSIVE Reverse(_)
Reverse(s) == IF s = <<>> THEN <<>> ELSE Append(Reverse(Tail(s)), Head(s))

Reordered(v) == IF v.tag = "list" THEN YList(Reverse(v.items)) ELSE v

Rerun(reorder) ==
    /\ pc = "done"
    /\ run = "first"
    /\ run' = "second"
    /\ prev' = files
    /\ reordered' = reorder
    /\ yaml_values' =
          IF reorder
          THEN [yaml_values EXCEPT !.supported = Reordered(@),
                                   !.autograd = Reordered(@)]
          ELSE yaml_values
    /\ pc' = "parse"
    /\ cpp_namespace' = YAbsent
    /\ metadata' = <<>>
    /\ external_backend_functions' = <<>>
    /\ written' = {}
    /\ reg_entries' = NoEntries
    /\ UNCHANGED <<grouped_native_functions, err, files>>

Next ==
    \/ ParseBackendYaml
    \/ WriteHeader
    \/ WriteDefaultHeader
    \/ WriteDefaultCpp
    \/ \E at \in {"write_h", "write_default_h", "write_default_cpp"} : WriteFails(at)
    \/ \E reorder \in BOOLEAN : Rerun(reorder)

Spec == Init /\ [][Next]_vars

----------------------------------------------------------------------------
(* Vocabulary of the properties *)

AllKeysPresent(y) == y.dict /\ MissingKeys(y) = <<>>

ListOfNames(v) ==
    /\ v.tag = "list"
    /\ \A i \in 1..Len(v.items) : ParseOk(v.items[i])

NamesOf(v) == {OperatorName_parse(Iter(v)[i].s) : i \in 1..Len(Iter(v))}

NameLists(y) ==
    AllKeysPresent(y) /\ ListOfNames(y.supported) /\ ListOfNames(y.autograd)

DeclaredNames(y) == NamesOf(y.supported) \cup NamesOf(y.autograd)

RegistryNames(grouped) ==
    {native_functions_map(grouped)[i].name :
        i \in 1..Len(native_functions_map(grouped))}

WellShaped(y) ==
    /\ NameLists(y)
    /\ y.cpp_namespace.tag = "str"
    /\ y.backend.tag = "str"

ParseReturned == pc # "parse" /\ err.kind \in {"none", "WriteError"}

AllResolved ==
    UNION {{ExternalFunctions(external_backend_functions[i])[j] :
                j \in 1..Len(ExternalFunctions(external_backend_functions[i]))} :
           i \in 1..Len(external_backend_functions)}

Count(s, x) == Cardinality({i \in 1..Len(s) : s[i] = x})

Operators(frags) == [i \in 1..Len(frags) |-> frags[i].operator]

RECURSIVE IsSubseq(_, _)
IsSubseq(a, b) ==
    IF a = <<>> THEN TRUE
    ELSE IF b = <<>> THEN FALSE
    ELSE IF Head(a) = Head(b) THEN IsSubseq(Tail(a), Tail(b))
    ELSE IsSubseq(a, Tail(b))

----------------------------------------------------------------------------
(* Properties *)

UnknownNames(y, grouped) == DeclaredNames(y) \ RegistryNames(grouped)

\* C1: when the supported or autograd list of a declaration names an operator
\* that is no key of the flattened registry map, parse_backend_yaml raises the
\* invalid-operator error, the error names one of the unknown operators, and
\* the run of main writes none of the three artifacts.
C1_UnknownOperatorFails ==
    (/\ pc # "parse"
     /\ NameLists(yaml_values)
     /\ UnknownNames(yaml_values, grouped_native_functions) # {})
    => /\ pc = "failed"
       /\ err.kind = "InvalidOperatorName"
       /\ \E n \in UnknownNames(yaml_values, grouped_native_functions) :
              err.arg = OperatorName_str(n)
       /\ external_backend_functions = <<>>
       /\ written = {}

C1_Witness ==
    /\ pc = "failed"
    /\ err.kind = "InvalidOperatorName"
    /\ NameLists(yaml_values)
    /\ \E i \in 1..Len(metadata) :
           metadata[i].operator \in RegistryNames(grouped_native_functions)
    /\ \E i \in 1..Len(metadata) :
           /\ metadata[i].operator \notin RegistryNames(grouped_native_functions)
           /\ metadata[i].is_autograd

\* C2: at the end of every run of main, whatever step failed, either all
\* three artifacts were written by the run or none was.
C2_AllOrNothing ==
    pc \in {"done", "failed"} => (written = {} \/ written = Artifacts)

BuiltFrom(e, g) ==
    /\ e.kind = g.kind
    /\ e.f.native_function = g.f
    /\ e.functional.native_function = g.functional
    /\ e.inplace.native_function = g.inplace
    /\ e.out.native_function = g.out

\* C3: when every name of supported and autograd is a key of the flattened
\* registry map, parse_backend_yaml returns, and its list has one resolved
\* entry per registry entry, in registry order, the i-th built from the i-th
\* registry entry (function to function, group to group).
C3_OneEntryPerRegistryEntry ==
    (/\ pc # "parse"
     /\ NameLists(yaml_values)
     /\ UnknownNames(yaml_values, grouped_native_functions) = {})
    => /\ ParseReturned
       /\ Len(external_backend_functions) = Len(grouped_native_functions)
       /\ \A i \in 1..Len(grouped_native_functions) :
              BuiltFrom(external_backend_functions[i], grouped_native_functions[i])

C3_Witness ==
    /\ pc = "write_h"
    /\ Len(grouped_native_functions) = 2
    /\ external_backend_functions[1].kind = "group"
    /\ external_backend_functions[2].kind = "function"
    /\ external_backend_functions[1].out.metadata.present
    /\ ~external_backend_functions[2].f.metadata.present

Registrations(op) ==
    Count(Operators(files[DefaultCpp].dispatch_registrations), op)

AutogradRegistrations(op) ==
    Count(Operators(files[DefaultCpp].dispatch_autograd_registrations), op)

\* C4: every resolved function that carries metadata has exactly one
\* registration fragment, in the autograd list iff its is_autograd flag is
\* true and in the plain list otherwise, and a function whose metadata is None
\* has no registration fragment in either list.
C4_RegistrationByFlag ==
    DefaultCpp \in written =>
        \A f \in AllResolved :
            LET op == f.native_function.name IN
            /\ AutogradRegistrations(op) =
                  (IF function_is_autograd_kernel(f) THEN 1 ELSE 0)
            /\ Registrations(op) =
                  (IF f.metadata.present /\ ~f.metadata.is_autograd THEN 1 ELSE 0)

\* C5: every resolved function, with metadata or without, has exactly one
\* declaration fragment in aten_xla_type.h and exactly one fallback
\* definition fragment in aten_xla_type_default.cpp, and there are no other
\* fragments in the two lists.
C5_TotalCoverage ==
    /\ H \in written =>
          /\ \A f \in AllResolved :
                 Count(Operators(files[H].dispatch_xla_declarations),
                       f.native_function.name) = 1
          /\ Len(files[H].dispatch_xla_declarations) = Cardinality(AllResolved)
          /\ Cardinality(AllResolved)
                 = Len(native_functions_map(grouped_native_functions))
    /\ DefaultCpp \in written =>
          /\ \A f \in AllResolved :
                 Count(Operators(files[DefaultCpp].dispatch_aten_fallback_definitions),
                       f.native_function.name) = 1
          /\ Len(files[DefaultCpp].dispatch_aten_fallback_definitions)
                 = Cardinality(AllResolved)

C5_Witness ==
    /\ pc = "done"
    /\ \E f \in AllResolved : f.metadata.present
    /\ \E i \in 1..Len(external_backend_functions) :
           /\ external_backend_functions[i].kind = "group"
           /\ ~external_backend_functions[i].functional.metadata.present
    /\ \E i \in 1..Len(external_backend_functions) :
           /\ external_backend_functions[i].kind = "function"
           /\ ~external_backend_functions[i].f.metadata.present

\* C6: a declaration that lacks one of cpp_namespace, backend, supported,
\* autograd, or whose cpp_namespace or backend is no string, or whose
\* supported or autograd is no list of strings, makes parse_backend_yaml raise
\* a malformed-declaration error before anything is resolved or written.
C6_MalformedRejected ==
    (pc # "parse" /\ ~WellShaped(yaml_values))
    => /\ pc = "failed"
       /\ err.kind \in {"AssertionError", "KeyError", "TypeError", "ParseError"}
       /\ external_backend_functions = <<>>
       /\ written = {}

\* C7: a second run on the same registry and the same declaration, with the
\* names of supported and autograd in the same or in the reverse order, leaves
\* every artifact with the content the first run gave it.
C7_SecondRunSameContent ==
    run = "second" => \A a \in written : files[a] = prev[a]

C7_Witness ==
    /\ run = "second"
    /\ pc = "done"
    /\ reordered
    /\ yaml_values.supported.tag = "list"
    /\ Len(yaml_values.supported.items) = 2
    /\ yaml_values.supported.items[1] # yaml_values.supported.items[2]
    /\ Len(files[DefaultCpp].dispatch_registrations) = 2

InBothLists(y) == NamesOf(y.supported) \cap NamesOf(y.autograd)

\* C8: an operator named in both supported and autograd raises no error of its
\* own (the parse returns when every name is known), and the metadata mapping
\* holds exactly one entry for it, whose is_autograd flag is true.
C8_AutogradOverwrites ==
    (pc # "parse" /\ NameLists(yaml_values))
    => \A n \in InBothLists(yaml_values) :
          /\ err.kind \in {"none", "WriteError", "InvalidOperatorName"}
          /\ UnknownNames(yaml_values, grouped_native_functions) = {}
                 => ParseReturned
          /\ Count(Operators(metadata), n) = 1
          /\ DictGet(metadata, n).is_autograd

C8_Witness ==
    /\ pc = "done"
    /\ NameLists(yaml_values)
    /\ InBothLists(yaml_values) # {}
    /\ Len(files[DefaultCpp].dispatch_autograd_registrations) = 1
    /\ Len(files[DefaultCpp].dispatch_registrations) = 0

\* C9: after parse_backend_yaml returns, a resolved function (standalone or a
\* variant of a group) carries metadata iff its name was declared in supported
\* or autograd, and then the metadata names that operator, the declared
\* backend, and is_autograd iff the name is in the autograd list.
C9_MetadataIffDeclared ==
    ParseReturned =>
        \A f \in AllResolved :
            LET n == f.native_function.name IN
            /\ f.metadata.present <=> n \in DeclaredNames(yaml_values)
            /\ f.metadata.present =>
                  /\ f.metadata.operator = n
                  /\ f.metadata.backend = yaml_values.backend
                  /\ f.metadata.is_autograd <=> n \in NamesOf(yaml_values.autograd)
                  /\ f.metadata = DictGet(metadata, n)

C9_Witness ==
    /\ pc = "write_h"
    /\ \E i \in 1..Len(external_backend_functions) :
           /\ external_backend_functions[i].kind = "group"
           /\ external_backend_functions[i].functional.metadata.present
           /\ ~external_backend_functions[i].out.metadata.present
    /\ \E i \in 1..Len(external_backend_functions) :
           /\ external_backend_functions[i].kind = "function"
           /\ external_backend_functions[i].f.metadata.present
           /\ external_backend_functions[i].f.metadata.is_autograd

\* C10: the two entry lists handed to the registration generator partition
\* the resolved entries: each resolved entry, also one whose metadata is None,
\* is in exactly one of them, and each list keeps the registry order.
C10_OrderPreservingPartition ==
    DefaultCpp \in written =>
        /\ \A i \in 1..Len(external_backend_functions) :
               Count(reg_entries.plain, external_backend_functions[i])
               + Count(reg_entries.autograd, external_backend_functions[i]) = 1
        /\ Len(reg_entries.plain) + Len(reg_entries.autograd)
               = Len(external_backend_functions)
        /\ IsSubseq(reg_entries.plain, external_backend_functions)
        /\ IsSubseq(reg_entries.autograd, external_backend_functions)

C10_Witness ==
    /\ pc = "done"
    /\ Len(reg_entries.plain) = 2
    /\ reg_entries.plain[1].kind = "function"
    /\ ~reg_entries.plain[1].f.metadata.present
    /\ reg_entries.plain[2].kind = "group"
    /\ reg_entries.autograd = <<>>

====
